---- MODULE Spec2Model ----
(***************************************************************************)
(* Model of assign_shifts.py: the shift tracker (track_person_shifts), the *)
(* whole-schedule validator (is_valid_assignment), the backtracking search *)
(* (assign_shifts_backtracker / backtracking_helper) and its driver (run). *)
(*                                                                         *)
(* Week indices are 0-based as in the source (enumerate / weeks[index]);   *)
(* Python lists are TLA+ sequences, so list position k is sequence         *)
(* position k + 1.  A Python dict keyed by name whose values are lists     *)
(* that are never left empty (the tracker's sequences) is a function over  *)
(* all names with << >> standing for "key absent".                         *)
(***************************************************************************)
EXTENDS Integers, Sequences, FiniteSets, TLC

\* ------------------------------------------------------------------ bounds
NumPeople == 2          \* persons in the roster of the general search
CrowdSize == 3          \* persons in the roster of the crowded search
CrowdWeeks == 3         \* longest week list of the crowded search
MaxWeeks == 2           \* longest week list given to the search
MaxSetup == 2           \* largest MIN_SETUP
MaxCleanup == 1         \* largest MIN_CLEANUP
MaxQuota == 1           \* largest leader / shadow quota per group
MaxShifts == 2          \* largest MAX_SHIFTS
MaxConsecutive == 1     \* largest MAX_CONSECUTIVE_SHIFTS
MaxMinShifts == 2       \* largest MIN_SHIFTS

ValidatedWeeks == 4     \* weeks of a schedule handed to the validator alone
MaxRecords == 4         \* records of a schedule handed to the validator alone
MaxValidatedRun == 2    \* largest MAX_CONSECUTIVE_SHIFTS the validator is given

\* Every name a roster may hold; a roster of n persons holds the names 1..n.
Names == 1..CrowdSize

VARIABLES
    constants,          \* the configuration imported from the constants module
    preference_dict,    \* name -> [preference, is_leader, is_shadow]
    weeks,              \* len(weeks); the week at list position k has index k
    assignment_dict,    \* week index -> [setup, cleanup], sequences of records
    leader_last_week,   \* name -> week indices appended when placed as leader
    shadow_last_week,   \* name -> week indices appended when placed as shadow
    stack,              \* call stack of backtracking_helper, innermost last
    result,             \* what assign_shifts_backtracker returned last
    validity,           \* what is_valid_assignment returned last
    runpc,              \* position of run / of the schedule under validation
    caller,             \* who called assign_shifts_backtracker: run or another caller
    files               \* report files written by run

vars == <<constants, preference_dict, weeks, assignment_dict, leader_last_week,
          shadow_last_week, stack, result, validity, runpc, caller, files>>

\* The names the source imports from the constants module.
MIN_SETUP == constants.MIN_SETUP
MIN_CLEANUP == constants.MIN_CLEANUP
MIN_SHIFTS == constants.MIN_SHIFTS
MAX_SHIFTS == constants.MAX_SHIFTS
MAX_CONSECUTIVE_SHIFTS == constants.MAX_CONSECUTIVE_SHIFTS
NUM_SETUP_LEADERS == constants.NUM_SETUP_LEADERS
NUM_CLEANUP_LEADERS == constants.NUM_CLEANUP_LEADERS
NUM_SETUP_SHADOWS == constants.NUM_SETUP_SHADOWS
NUM_CLEANUP_SHADOWS == constants.NUM_CLEANUP_SHADOWS
MODE == constants.MODE

WeekIndices == 0..(weeks - 1)

\* the keys of preference_dict
People == DOMAIN preference_dict

\* --------------------------------------------------------------- sequences
Last(s) == s[Len(s)]

\* list.pop()
Pop(s) == SubSeq(s, 1, Len(s) - 1)

\* week["setup"] + week["cleanup"]
WeekRecords(ad, w) == ad[w].setup \o ad[w].cleanup

RECURSIVE FlattenFrom(_, _, _)
FlattenFrom(ad, w, n) ==
    IF w >= n THEN << >>
    ELSE [k \in 1..Len(WeekRecords(ad, w)) |->
             [week_index |-> w, person |-> WeekRecords(ad, w)[k]]]
         \o FlattenFrom(ad, w + 1, n)

\* The (week_index, person) pairs in the order the tracker's loops visit them.
Visits(ad) == FlattenFrom(ad, 0, Cardinality(DOMAIN ad))

\* ------------------------------------------------------------ shift tracker
\* A run that is never reset.
KeepRun(seq, week_index) == Append(seq, week_index)

\* Reset the run if its last week is not week_index - 1, then append.
ExtendRun(seq, week_index) ==
    IF Len(seq) > 0 /\ Last(seq) # week_index - 1
    THEN <<week_index>>
    ELSE Append(seq, week_index)

EmptyTrack ==
    [person_shift_count |-> [n \in Names |-> 0],
     person_shift_sequence |-> [n \in Names |-> << >>],
     leader_shift_sequence |-> [n \in Names |-> << >>],
     shadow_shift_sequence |-> [n \in Names |-> << >>]]

TrackOne(t, v) ==
    LET name == v.person.name
        w == v.week_index
    IN [person_shift_count |->
            [t.person_shift_count EXCEPT ![name] = @ + 1],
        person_shift_sequence |->
            [t.person_shift_sequence EXCEPT ![name] = ExtendRun(@, w)],
        leader_shift_sequence |->
            IF v.person.leader_this_week
            THEN [t.leader_shift_sequence EXCEPT ![name] = ExtendRun(@, w)]
            ELSE t.leader_shift_sequence,
        shadow_shift_sequence |->
            IF v.person.shadow_this_week
            THEN [t.shadow_shift_sequence EXCEPT ![name] = ExtendRun(@, w)]
            ELSE t.shadow_shift_sequence]

RECURSIVE TrackUpTo(_, _)
TrackUpTo(vs, k) ==
    IF k = 0 THEN EmptyTrack ELSE TrackOne(TrackUpTo(vs, k - 1), vs[k])

track_person_shifts(ad) == TrackUpTo(Visits(ad), Len(Visits(ad)))

\* ---------------------------------------------------------------- validator
LeaderCount(group) ==
    Cardinality({k \in 1..Len(group) : group[k].leader_this_week})

AnyLeader(group) == \E k \in 1..Len(group) : group[k].leader_this_week

AnyShadow(group) == \E k \in 1..Len(group) : group[k].shadow_this_week

WeekMeetsMinimums(shifts, c) ==
    /\ ~(Len(shifts.setup) < c.MIN_SETUP
         \/ LeaderCount(shifts.setup) < c.NUM_SETUP_LEADERS)
    /\ ~(Len(shifts.cleanup) < c.MIN_CLEANUP
         \/ LeaderCount(shifts.cleanup) < c.NUM_CLEANUP_LEADERS)
    /\ (c.MODE = "shadowing" =>
           /\ AnyLeader(shifts.setup) /\ AnyShadow(shifts.setup)
           /\ AnyLeader(shifts.cleanup) /\ AnyShadow(shifts.cleanup))

RunsWithinMaximum(seqs, c) ==
    \A n \in Names : Len(seqs[n]) <= c.MAX_CONSECUTIVE_SHIFTS

is_valid_assignment(ad, c) ==
    LET t == track_person_shifts(ad)
    IN /\ \A w \in DOMAIN ad : WeekMeetsMinimums(ad[w], c)
       /\ RunsWithinMaximum(t.leader_shift_sequence, c)
       /\ RunsWithinMaximum(t.person_shift_sequence, c)
       /\ RunsWithinMaximum(t.shadow_shift_sequence, c)
       /\ \A n \in Names :
              t.person_shift_count[n] # 0 =>
                  /\ c.MIN_SHIFTS <= t.person_shift_count[n]
                  /\ t.person_shift_count[n] <= c.MAX_SHIFTS

\* ------------------------------------------------------------------- inputs
Preferences == {"s", "c", "s/c"}

\* parse_file: a shadow flag is read only in shadowing mode; elsewhere the
\* key is absent and every read of it is .get("is_shadow", False).
PersonRecords(mode) ==
    [preference : Preferences,
     is_leader : BOOLEAN,
     is_shadow : IF mode = "shadowing" THEN BOOLEAN ELSE {FALSE}]

\* The search reads the roster only through random.shuffle, so the order of
\* its entries is immaterial: rosters are drawn in one canonical order.
RosterRank(r) ==
    (IF r.preference = "s" THEN 0 ELSE IF r.preference = "c" THEN 4 ELSE 8)
    + (IF r.is_leader THEN 2 ELSE 0) + (IF r.is_shadow THEN 1 ELSE 0)

Rosters(n, mode) ==
    {pd \in [1..n -> PersonRecords(mode)] :
        \A a, b \in 1..n : a < b => RosterRank(pd[a]) <= RosterRank(pd[b])}

Configurations ==
    {c \in [MIN_SETUP : 1..MaxSetup,
            MIN_CLEANUP : 0..MaxCleanup,
            MIN_SHIFTS : 1..MaxMinShifts,
            MAX_SHIFTS : 1..MaxShifts,
            MAX_CONSECUTIVE_SHIFTS : 1..MaxConsecutive,
            NUM_SETUP_LEADERS : 0..MaxQuota,
            NUM_CLEANUP_LEADERS : 0..MaxQuota,
            NUM_SETUP_SHADOWS : 0..MaxQuota,
            NUM_CLEANUP_SHADOWS : 0..MaxQuota,
            MODE : {"shadowing", "standard"}] :
        /\ c.MIN_SHIFTS <= c.MAX_SHIFTS
        /\ c.NUM_CLEANUP_LEADERS <= c.MIN_CLEANUP
        /\ c.NUM_CLEANUP_SHADOWS <= c.MIN_CLEANUP
        /\ (c.MODE = "standard" =>
               c.NUM_SETUP_SHADOWS = 0 /\ c.NUM_CLEANUP_SHADOWS = 0)}

\* ------------------------------------------------------ search: pure parts
EmptySchedule(n) == [w \in 0..(n - 1) |-> [setup |-> << >>, cleanup |-> << >>]]

\* {person: [] for person in preference_dict}
NoWeeks == [n \in People |-> << >>]

\* random.shuffle(list(preference_dict.items())): any order of the names
Shuffles ==
    {s \in [1..Cardinality(People) -> People] :
        \A a, b \in 1..Cardinality(People) : s[a] = s[b] => a = b}

\* the sort key: how many records of the whole schedule bear the name
ShiftsSoFar(ad, name) ==
    Cardinality({k \in 1..Len(Visits(ad)) : Visits(ad)[k].person.name = name})

RECURSIVE SortedFrom(_, _, _, _)
SortedFrom(items, ad, k, max) ==
    IF k > max THEN << >>
    ELSE SelectSeq(items, LAMBDA x : ShiftsSoFar(ad, x) = k)
         \o SortedFrom(items, ad, k + 1, max)

\* sorted(items, key = shifts so far): ascending and stable
SortedByShifts(items, ad) == SortedFrom(items, ad, 0, Len(Visits(ad)))

IsLeader(name) == preference_dict[name].is_leader

\* A shadow test that does not look at the leader flag.
IsShadow(name) == preference_dict[name].is_shadow

IsShadowOnly(name) ==
    preference_dict[name].is_shadow /\ ~preference_dict[name].is_leader

\* A double-assignment test that looks at the setup group only.
InSetupOfCurrentWeek(person, ad, index) ==
    \E k \in 1..Len(ad[index].setup) : ad[index].setup[k].name = person

\* any(person == p["name"] for p in setup + cleanup of the current week)
InCurrentWeek(person, ad, index) ==
    \E k \in 1..Len(WeekRecords(ad, index)) :
        WeekRecords(ad, index)[k].name = person

\* A shift-count test that nobody fails.
NeverAtMaxShifts(count) == count < 0

AtMaxShifts(count) == count >= MAX_SHIFTS

\* len(seq.get(person, [])) >= MAX_CONSECUTIVE_SHIFTS and seq[person][-1] ==
\* index - 1; the second read is a plain subscript, a KeyError if absent.
RunCheck(seq, index) ==
    IF Len(seq) >= MAX_CONSECUTIVE_SHIFTS
    THEN IF seq = << >> THEN "KeyError"
         ELSE IF Last(seq) = index - 1 THEN "skip" ELSE "pass"
    ELSE "pass"

\* The five pruning tests that open every loop body, in source order.
Precheck(person, ad, index) ==
    LET t == track_person_shifts(ad)
        a == RunCheck(t.person_shift_sequence[person], index)
        b == RunCheck(t.leader_shift_sequence[person], index)
        c == RunCheck(t.shadow_shift_sequence[person], index)
    IN IF InCurrentWeek(person, ad, index) THEN "skip"
       ELSE IF AtMaxShifts(t.person_shift_count[person]) THEN "skip"
       ELSE IF a # "pass" THEN a
       ELSE IF b # "pass" THEN b
       ELSE c

\* A preference test that every token passes.
WantsAnything(preferences) == preferences.preference \in Preferences

WantsSetup(preferences) == preferences.preference \in {"s", "s/c"}

WantsCleanup(preferences) == preferences.preference \in {"c", "s/c"}

SetupOpen(ad, index) == Len(ad[index].setup) < MIN_SETUP

CleanupOpen(ad, index) == Len(ad[index].cleanup) < MIN_CLEANUP

\* A fullness test that forgets the cleanup group.
SetupFull(ad, index) == Len(ad[index].setup) = MIN_SETUP

\* A fullness test that forgets the setup group.
CleanupFull(ad, index) == Len(ad[index].cleanup) = MIN_CLEANUP

\* Lines 244-245, 327-328, 394-395: both groups hold their target size.
WeekFull(ad, index) ==
    /\ Len(ad[index].setup) = MIN_SETUP
    /\ Len(ad[index].cleanup) = MIN_CLEANUP

LeaderRecord(person, preferences) ==
    [name |-> person,
     is_leader |-> preferences.is_leader,
     is_shadow |-> preferences.is_shadow,
     shadow_this_week |-> FALSE,
     leader_this_week |-> TRUE]

ShadowRecord(person, preferences) ==
    [name |-> person,
     is_leader |-> FALSE,
     is_shadow |-> preferences.is_shadow,
     shadow_this_week |-> TRUE,
     leader_this_week |-> FALSE]

MemberRecord(person, preferences) ==
    [name |-> person,
     is_leader |-> preferences.is_leader,
     is_shadow |-> preferences.is_shadow,
     shadow_this_week |-> FALSE,
     leader_this_week |-> FALSE]

\* An append that lands in the week before the current one.
AppendSetupEarly(ad, index, rec) ==
    IF index > 0
    THEN [ad EXCEPT ![index - 1].setup = Append(@, rec)]
    ELSE [ad EXCEPT ![index].setup = Append(@, rec)]

AppendSetup(ad, index, rec) ==
    [ad EXCEPT ![index].setup = Append(@, rec)]

AppendCleanup(ad, index, rec) ==
    [ad EXCEPT ![index].cleanup = Append(@, rec)]

\* The frame of a fresh call backtracking_helper(index); its locals are
\* bound by HelperEnter and the phases after it.
NewFrame(index) ==
    [index |-> index,
     pc |-> "enter",
     randomized_items |-> << >>,
     items |-> << >>,
     i |-> 1,
     remaining_setup_leaders |-> 0,
     remaining_cleanup_leaders |-> 0,
     remaining_setup_shadows |-> 0,
     remaining_cleanup_shadows |-> 0,
     leader_this_week |-> "unbound",
     retval |-> FALSE]

\* ------------------------------------------------- search: one loop body
\* Each step operator maps the frame f of the running call and the shared
\* state to [status, frame, ad, llw, slw]; status is "next" (the loop goes
\* on with the next element), "call" (backtracking_helper(index + 1) is
\* called from this element) or the name of the exception raised.
Advance(f) == [f EXCEPT !.i = @ + 1]

StepResult(status, f, ad, llw, slw) ==
    [status |-> status, frame |-> f, ad |-> ad, llw |-> llw, slw |-> slw]

\* Lines 191-247: the body of the leaders loop up to the recursive call.
LeaderStep(f, ad, llw, slw) ==
    LET person == f.items[f.i]
        preferences == preference_dict[person]
        index == f.index
        chk == Precheck(person, ad, index)
    IN IF chk = "KeyError" THEN StepResult("KeyError", f, ad, llw, slw)
       ELSE IF chk = "skip" THEN StepResult("next", Advance(f), ad, llw, slw)
       ELSE IF /\ WantsSetup(preferences) /\ SetupOpen(ad, index)
               /\ preferences.is_leader /\ f.remaining_setup_leaders > 0
       THEN StepResult("next",
                [Advance(f) EXCEPT !.leader_this_week = "True",
                                   !.remaining_setup_leaders = @ - 1],
                AppendSetup(ad, index, LeaderRecord(person, preferences)),
                [llw EXCEPT ![person] = Append(@, index)], slw)
       ELSE IF /\ WantsCleanup(preferences) /\ CleanupOpen(ad, index)
               /\ preferences.is_leader /\ f.remaining_cleanup_leaders > 0
       THEN StepResult("next",
                [Advance(f) EXCEPT !.leader_this_week = "True",
                                   !.remaining_cleanup_leaders = @ - 1],
                AppendCleanup(ad, index, LeaderRecord(person, preferences)),
                [llw EXCEPT ![person] = Append(@, index)], slw)
       ELSE IF WeekFull(ad, index) THEN StepResult("call", f, ad, llw, slw)
       ELSE StepResult("next", Advance(f), ad, llw, slw)

\* Lines 269-330: the body of the shadows loop up to the recursive call;
\* "break" leaves the loop before the element is looked at.
ShadowStep(f, ad, llw, slw) ==
    LET person == f.items[f.i]
        preferences == preference_dict[person]
        index == f.index
        chk == Precheck(person, ad, index)
    IN IF f.remaining_setup_shadows = 0 /\ f.remaining_cleanup_shadows = 0
       THEN StepResult("break", f, ad, llw, slw)
       ELSE IF chk = "KeyError" THEN StepResult("KeyError", f, ad, llw, slw)
       ELSE IF chk = "skip" THEN StepResult("next", Advance(f), ad, llw, slw)
       ELSE IF /\ WantsSetup(preferences) /\ SetupOpen(ad, index)
               /\ preferences.is_shadow /\ f.remaining_setup_shadows > 0
       THEN StepResult("next",
                [Advance(f) EXCEPT !.remaining_setup_shadows = @ - 1],
                AppendSetup(ad, index, ShadowRecord(person, preferences)),
                llw, [slw EXCEPT ![person] = Append(@, index)])
       ELSE IF /\ WantsCleanup(preferences) /\ CleanupOpen(ad, index)
               /\ preferences.is_shadow /\ f.remaining_cleanup_shadows > 0
       THEN StepResult("next",
                [Advance(f) EXCEPT !.remaining_cleanup_shadows = @ - 1],
                AppendCleanup(ad, index, ShadowRecord(person, preferences)),
                llw, [slw EXCEPT ![person] = Append(@, index)])
       ELSE IF WeekFull(ad, index) THEN StepResult("call", f, ad, llw, slw)
       ELSE StepResult("next", Advance(f), ad, llw, slw)

\* Lines 373-391: the placement of an ordinary member.
PlaceMember(person, preferences, ad, index) ==
    IF WantsSetup(preferences) /\ SetupOpen(ad, index)
    THEN AppendSetup(ad, index, MemberRecord(person, preferences))
    ELSE IF WantsCleanup(preferences) /\ CleanupOpen(ad, index)
    THEN AppendCleanup(ad, index, MemberRecord(person, preferences))
    ELSE ad

\* Lines 351-396: the body of the participants loop up to the recursive call.
MemberStep(f, ad, llw, slw) ==
    LET person == f.items[f.i]
        preferences == preference_dict[person]
        index == f.index
        chk == Precheck(person, ad, index)
        placed == PlaceMember(person, preferences, ad, index)
    IN IF chk = "KeyError" THEN StepResult("KeyError", f, ad, llw, slw)
       ELSE IF chk = "skip" THEN StepResult("next", Advance(f), ad, llw, slw)
       ELSE IF WeekFull(placed, index)
       THEN StepResult("call", f, placed, llw, slw)
       ELSE StepResult("next", Advance(f), placed, llw, slw)

\* ------------------------------------------------ search: the undo branches
\* Lines 250-258 (leaders loop) after the recursive call returned False.
\* leader_this_week is read right after each pop; it is a local that only a
\* placement in this call binds.
LeaderUndo(f, ad, llw, slw) ==
    LET person == f.items[f.i]
        preferences == preference_dict[person]
        index == f.index
        popS == WantsSetup(preferences) /\ Len(ad[index].setup) > 0
        ad1 == IF popS THEN [ad EXCEPT ![index].setup = Pop(@)] ELSE ad
        llw1 == IF popS /\ f.leader_this_week = "True" /\ llw[person] # << >>
                THEN [llw EXCEPT ![person] = Pop(@)] ELSE llw
        popC == WantsCleanup(preferences) /\ Len(ad1[index].cleanup) > 0
        ad2 == IF popC THEN [ad1 EXCEPT ![index].cleanup = Pop(@)] ELSE ad1
        llw2 == IF popC /\ f.leader_this_week = "True" /\ llw1[person] # << >>
                THEN [llw1 EXCEPT ![person] = Pop(@)] ELSE llw1
    IN IF popS /\ f.leader_this_week = "unbound"
       THEN StepResult("UnboundLocalError", f, ad1, llw, slw)
       ELSE IF popC /\ f.leader_this_week = "unbound"
       THEN StepResult("UnboundLocalError", f, ad2, llw1, slw)
       ELSE StepResult("next", Advance(f), ad2, llw2, slw)

\* Lines 333-341 (shadows loop).  shadow_this_week was set False at line 295
\* and the element was not placed (a placement ends in "continue"), so the
\* shadow_last_week pops are guarded by False.
ShadowUndo(f, ad, llw, slw) ==
    LET person == f.items[f.i]
        preferences == preference_dict[person]
        index == f.index
        shadow_this_week == FALSE
        popS == WantsSetup(preferences) /\ Len(ad[index].setup) > 0
        ad1 == IF popS THEN [ad EXCEPT ![index].setup = Pop(@)] ELSE ad
        slw1 == IF popS /\ shadow_this_week /\ slw[person] # << >>
                THEN [slw EXCEPT ![person] = Pop(@)] ELSE slw
        popC == WantsCleanup(preferences) /\ Len(ad1[index].cleanup) > 0
        ad2 == IF popC THEN [ad1 EXCEPT ![index].cleanup = Pop(@)] ELSE ad1
        slw2 == IF popC /\ shadow_this_week /\ slw1[person] # << >>
                THEN [slw1 EXCEPT ![person] = Pop(@)] ELSE slw1
    IN StepResult("next", Advance(f), ad2, llw, slw2)

\* Lines 400-404 (participants loop).
MemberUndo(f, ad, llw, slw) ==
    LET person == f.items[f.i]
        preferences == preference_dict[person]
        index == f.index
        popS == WantsSetup(preferences) /\ Len(ad[index].setup) > 0
        ad1 == IF popS THEN [ad EXCEPT ![index].setup = Pop(@)] ELSE ad
        popC == WantsCleanup(preferences) /\ Len(ad1[index].cleanup) > 0
        ad2 == IF popC THEN [ad1 EXCEPT ![index].cleanup = Pop(@)] ELSE ad1
    IN StepResult("next", Advance(f), ad2, llw, slw)

\* ------------------------------------------------------------ state machine
Top == stack[Len(stack)]

Caller == stack[Len(stack) - 1]

ReplaceTop(f) == [stack EXCEPT ![Len(stack)] = f]

Returning(f, value) == [f EXCEPT !.pc = "ret", !.retval = value]

LeaderTotal(pd) == Cardinality({n \in DOMAIN pd : pd[n].is_leader})

\* A precondition that counts the persons of the roster, not its leaders.
NotEnoughPeople(pd, n) == Cardinality(DOMAIN pd) < n

\* Line 525: the structural precondition of run.
NotEnoughLeaders(pd, n) == LeaderTotal(pd) < n

Init ==
    /\ constants \in Configurations
    /\ preference_dict \in Rosters(NumPeople, constants.MODE)
    /\ weeks \in 0..MaxWeeks
    /\ assignment_dict = << >>
    /\ leader_last_week = NoWeeks
    /\ shadow_last_week = NoWeeks
    /\ stack = << >>
    /\ result = "unset"
    /\ validity = "unset"
    /\ runpc = "start"
    /\ caller = "nobody"
    /\ files = FALSE

\* Lines 154-156 and 409: assign_shifts_backtracker builds its state and
\* calls backtracking_helper(0).
CallBacktracker ==
    /\ assignment_dict' = EmptySchedule(weeks)
    /\ leader_last_week' = NoWeeks
    /\ shadow_last_week' = NoWeeks
    /\ stack' = <<NewFrame(0)>>
    /\ runpc' = "searching"

Raise(exception) ==
    /\ stack' = << >>
    /\ runpc' = exception

\* Apply the result r of a loop-body step to the state.
Apply(r) ==
    /\ assignment_dict' = r.ad
    /\ leader_last_week' = r.llw
    /\ shadow_last_week' = r.slw
    /\ IF r.status = "next" THEN stack' = ReplaceTop(r.frame) /\ runpc' = runpc
       ELSE IF r.status = "call"
       THEN /\ stack' = Append(ReplaceTop(r.frame), NewFrame(r.frame.index + 1))
            /\ runpc' = runpc
       ELSE Raise(r.status)

\* Lines 522-527 of run.
RunStart ==
    /\ runpc = "start"
    /\ IF NotEnoughLeaders(preference_dict, weeks)
       THEN /\ runpc' = "ValueError"
            /\ UNCHANGED <<assignment_dict, leader_last_week,
                           shadow_last_week, stack>>
       ELSE CallBacktracker
    /\ caller' = "run"
    /\ UNCHANGED <<constants, preference_dict, weeks, result, validity, files>>

\* assign_shifts_backtracker(preference_dict, weeks) called on its own, by a
\* caller other than run: no precondition is tested and the result is not
\* acted on.
DirectCall ==
    /\ runpc = "start"
    /\ CallBacktracker
    /\ caller' = "direct"
    /\ UNCHANGED <<constants, preference_dict, weeks, result, validity, files>>

\* Lines 168-188: the head of backtracking_helper.
HelperEnter ==
    /\ runpc = "searching"
    /\ stack # << >>
    /\ Top.pc = "enter"
    /\ \E randomized_items \in Shuffles :
          stack' = ReplaceTop(
              IF Top.index = weeks THEN Returning(Top, TRUE)
              ELSE [Top EXCEPT
                      !.pc = "leaders",
                      !.randomized_items = randomized_items,
                      !.items = SortedByShifts(
                                    SelectSeq(randomized_items, IsLeader),
                                    assignment_dict),
                      !.i = 1,
                      !.remaining_setup_leaders = NUM_SETUP_LEADERS,
                      !.remaining_cleanup_leaders = NUM_CLEANUP_LEADERS])
    /\ UNCHANGED <<constants, preference_dict, weeks, assignment_dict,
                   leader_last_week, shadow_last_week, result, validity,
                   runpc, caller, files>>

\* One pass through the body of the leaders loop.
LeaderIteration ==
    /\ runpc = "searching"
    /\ stack # << >>
    /\ Top.pc = "leaders"
    /\ Top.i <= Len(Top.items)
    /\ Apply(LeaderStep(Top, assignment_dict, leader_last_week,
                        shadow_last_week))
    /\ UNCHANGED <<constants, preference_dict, weeks, result, validity, caller,
                   files>>

\* Lines 260-267: the leaders loop is over; sort the shadows.
LeadersDone ==
    /\ runpc = "searching"
    /\ stack # << >>
    /\ Top.pc = "leaders"
    /\ Top.i > Len(Top.items)
    /\ stack' = ReplaceTop(
           [Top EXCEPT
               !.pc = "shadows",
               !.items = SortedByShifts(
                             SelectSeq(Top.randomized_items, IsShadowOnly),
                             assignment_dict),
               !.i = 1,
               !.remaining_setup_shadows = NUM_SETUP_SHADOWS,
               !.remaining_cleanup_shadows = NUM_CLEANUP_SHADOWS])
    /\ UNCHANGED <<constants, preference_dict, weeks, assignment_dict,
                   leader_last_week, shadow_last_week, result, validity,
                   runpc, caller, files>>

\* Lines 346-349: sort everybody for the participants loop.  The shuffled
\* list is not read again after this point.
ToParticipants(f, ad) ==
    [f EXCEPT !.pc = "participants",
              !.items = SortedByShifts(f.randomized_items, ad),
              !.i = 1,
              !.randomized_items = << >>]

\* One pass through the body of the shadows loop, or its break.
ShadowIteration ==
    /\ runpc = "searching"
    /\ stack # << >>
    /\ Top.pc = "shadows"
    /\ Top.i <= Len(Top.items)
    /\ LET r == ShadowStep(Top, assignment_dict, leader_last_week,
                           shadow_last_week)
       IN IF r.status = "break"
          THEN /\ stack' = ReplaceTop(ToParticipants(Top, assignment_dict))
               /\ UNCHANGED <<assignment_dict, leader_last_week,
                              shadow_last_week, runpc>>
          ELSE Apply(r)
    /\ UNCHANGED <<constants, preference_dict, weeks, result, validity, caller,
                   files>>

\* The shadows loop ran out of elements.
ShadowsDone ==
    /\ runpc = "searching"
    /\ stack # << >>
    /\ Top.pc = "shadows"
    /\ Top.i > Len(Top.items)
    /\ stack' = ReplaceTop(ToParticipants(Top, assignment_dict))
    /\ UNCHANGED <<constants, preference_dict, weeks, assignment_dict,
                   leader_last_week, shadow_last_week, result, validity,
                   runpc, caller, files>>

\* One pass through the body of the participants loop.
MemberIteration ==
    /\ runpc = "searching"
    /\ stack # << >>
    /\ Top.pc = "participants"
    /\ Top.i <= Len(Top.items)
    /\ Apply(MemberStep(Top, assignment_dict, leader_last_week,
                        shadow_last_week))
    /\ UNCHANGED <<constants, preference_dict, weeks, result, validity, caller,
                   files>>

\* Line 406: no element of the participants loop is left.
HelperFails ==
    /\ runpc = "searching"
    /\ stack # << >>
    /\ Top.pc = "participants"
    /\ Top.i > Len(Top.items)
    /\ stack' = ReplaceTop(Returning(Top, FALSE))
    /\ UNCHANGED <<constants, preference_dict, weeks, assignment_dict,
                   leader_last_week, shadow_last_week, result, validity,
                   runpc, caller, files>>

\* Lines 246-247, 329-330, 396-397: the recursive call returned True.
ReturnTrue ==
    /\ runpc = "searching"
    /\ Len(stack) > 1
    /\ Top.pc = "ret"
    /\ Top.retval
    /\ stack' = Append(SubSeq(stack, 1, Len(stack) - 2), Returning(Caller, TRUE))
    /\ UNCHANGED <<constants, preference_dict, weeks, assignment_dict,
                   leader_last_week, shadow_last_week, result, validity,
                   runpc, caller, files>>

\* The undo branch of the loop the caller is in.
Undo(f, ad, llw, slw) ==
    IF f.pc = "leaders" THEN LeaderUndo(f, ad, llw, slw)
    ELSE IF f.pc = "shadows" THEN ShadowUndo(f, ad, llw, slw)
    ELSE MemberUndo(f, ad, llw, slw)

\* The recursive call returned False: the caller undoes and goes on.
ReturnFalse ==
    /\ runpc = "searching"
    /\ Len(stack) > 1
    /\ Top.pc = "ret"
    /\ ~Top.retval
    /\ LET r == Undo(Caller, assignment_dict, leader_last_week,
                     shadow_last_week)
       IN /\ assignment_dict' = r.ad
          /\ leader_last_week' = r.llw
          /\ shadow_last_week' = r.slw
          /\ IF r.status = "next"
             THEN /\ stack' = Append(SubSeq(stack, 1, Len(stack) - 2), r.frame)
                  /\ runpc' = runpc
             ELSE Raise(r.status)
    /\ UNCHANGED <<constants, preference_dict, weeks, result, validity, caller,
                   files>>

\* Lines 409-413: backtracking_helper(0) returned.
BacktrackerReturns ==
    /\ runpc = "searching"
    /\ Len(stack) = 1
    /\ Top.pc = "ret"
    /\ stack' = << >>
    /\ result' = IF Top.retval THEN "schedule" ELSE "None"
    /\ validity' = IF Top.retval
                   THEN is_valid_assignment(assignment_dict, constants)
                   ELSE validity
    /\ runpc' = "returned"
    /\ UNCHANGED <<constants, preference_dict, weeks, assignment_dict,
                   leader_last_week, shadow_last_week, caller, files>>

\* Lines 528-529: run calls the search again while it returned None.
RunRetry ==
    /\ runpc = "returned"
    /\ caller = "run"
    /\ result = "None"
    /\ CallBacktracker
    /\ UNCHANGED <<constants, preference_dict, weeks, result, validity, caller,
                   files>>

\* Lines 530-534: a non-empty schedule is written out, an empty one reported.
RunFinish ==
    /\ runpc = "returned"
    /\ caller = "run"
    /\ result = "schedule"
    /\ IF weeks > 0
       THEN files' = TRUE /\ runpc' = "saved"
       ELSE files' = files /\ runpc' = "No valid assignment found."
    /\ UNCHANGED <<constants, preference_dict, weeks, assignment_dict,
                   leader_last_week, shadow_last_week, stack, result, validity,
                   caller>>

Next ==
    \/ RunStart
    \/ DirectCall
    \/ HelperEnter
    \/ LeaderIteration
    \/ LeadersDone
    \/ ShadowIteration
    \/ ShadowsDone
    \/ MemberIteration
    \/ HelperFails
    \/ ReturnTrue
    \/ ReturnFalse
    \/ BacktrackerReturns
    \/ RunRetry
    \/ RunFinish

Spec == Init /\ [][Next]_vars

\* run as the only caller, in shadowing mode with the widest shift limits, on
\* rosters whose members all accept either group.
\* The program is sequential and nothing suspends it, so a step that can be
\* taken is taken: weak fairness of the next-state relation.
RunInit ==
    /\ Init
    /\ MODE = "shadowing"
    /\ MIN_SHIFTS = 1
    /\ MAX_SHIFTS = MaxShifts
    /\ \A n \in People : preference_dict[n].preference = "s/c"

RunNext ==
    \/ RunStart
    \/ HelperEnter
    \/ LeaderIteration
    \/ LeadersDone
    \/ ShadowIteration
    \/ ShadowsDone
    \/ MemberIteration
    \/ HelperFails
    \/ ReturnTrue
    \/ ReturnFalse
    \/ BacktrackerReturns
    \/ RunRetry
    \/ RunFinish

FairSpec == RunInit /\ [][RunNext]_vars /\ WF_vars(RunNext)

\* ------------------------------------------------- the crowded search
\* The search on rosters of up to CrowdSize persons who all ask for setup,
\* over up to CrowdWeeks weeks, with no cleanup crew and the widest shift
\* limits: more candidates than a week has places, and weeks enough for a
\* call to fail twice.
CrowdConfigurations ==
    {c \in Configurations :
        /\ c.MIN_CLEANUP = 0
        /\ c.MIN_SHIFTS = 1
        /\ c.MAX_SHIFTS = MaxShifts}

CrowdRosters(mode) ==
    {pd \in UNION {Rosters(n, mode) : n \in NumPeople..CrowdSize} :
        \A n \in DOMAIN pd : pd[n].preference = "s"}

CrowdInit ==
    /\ constants \in CrowdConfigurations
    /\ preference_dict \in CrowdRosters(constants.MODE)
    /\ weeks \in MaxWeeks..CrowdWeeks
    /\ assignment_dict = << >>
    /\ leader_last_week = NoWeeks
    /\ shadow_last_week = NoWeeks
    /\ stack = << >>
    /\ result = "unset"
    /\ validity = "unset"
    /\ runpc = "start"
    /\ caller = "nobody"
    /\ files = FALSE

CrowdSpec == CrowdInit /\ [][Next]_vars

\* ------------------------------------------------- one call of the search
\* assign_shifts_backtracker called once, from its call to its end, on the
\* rosters of NumPeople persons of the crowded search in shadowing mode and
\* week lists of MaxWeeks to CrowdWeeks weeks.  The call is sequential and nothing suspends it, so
\* a step that can be taken is taken: weak fairness of the next-state
\* relation.
CallInit ==
    /\ constants \in {c \in CrowdConfigurations : c.MODE = "shadowing"}
    /\ preference_dict \in
           {pd \in CrowdRosters(constants.MODE) :
               Cardinality(DOMAIN pd) = NumPeople}
    /\ weeks \in MaxWeeks..CrowdWeeks
    /\ assignment_dict = << >>
    /\ leader_last_week = NoWeeks
    /\ shadow_last_week = NoWeeks
    /\ stack = << >>
    /\ result = "unset"
    /\ validity = "unset"
    /\ runpc = "start"
    /\ caller = "nobody"
    /\ files = FALSE

CallNext ==
    \/ DirectCall
    \/ HelperEnter
    \/ LeaderIteration
    \/ LeadersDone
    \/ ShadowIteration
    \/ ShadowsDone
    \/ MemberIteration
    \/ HelperFails
    \/ ReturnTrue
    \/ ReturnFalse
    \/ BacktrackerReturns

FairCallSpec == CallInit /\ [][CallNext]_vars /\ WF_vars(CallNext)


\* ------------------------------------------- the validator on its own
\* is_valid_assignment applied to schedules that need not come from the
\* search: any schedule without double-booking of at most MaxRecords records
\* over ValidatedWeeks weeks, built record by record and then validated.
ValidatorConfigurations ==
    [MIN_SETUP : {1},
     MIN_CLEANUP : {0},
     MIN_SHIFTS : {1},
     MAX_SHIFTS : {ValidatedWeeks - 1},
     MAX_CONSECUTIVE_SHIFTS : 1..MaxValidatedRun,
     NUM_SETUP_LEADERS : 0..MaxQuota,
     NUM_CLEANUP_LEADERS : {0},
     NUM_SETUP_SHADOWS : {0},
     NUM_CLEANUP_SHADOWS : {0},
     MODE : {"standard"}]

\* a roster whose members may serve in any group and any role
AnyRoleRoster ==
    [n \in 1..NumPeople |->
        [preference |-> "s/c", is_leader |-> TRUE, is_shadow |-> TRUE]]

RecordOf(role, person, preferences) ==
    IF role = "leader" THEN LeaderRecord(person, preferences)
    ELSE IF role = "shadow" THEN ShadowRecord(person, preferences)
    ELSE MemberRecord(person, preferences)

ValidatorInit ==
    /\ constants \in ValidatorConfigurations
    /\ preference_dict = AnyRoleRoster
    /\ weeks = ValidatedWeeks
    /\ assignment_dict = EmptySchedule(ValidatedWeeks)
    /\ leader_last_week = NoWeeks
    /\ shadow_last_week = NoWeeks
    /\ stack = << >>
    /\ result = "unset"
    /\ validity = "unset"
    /\ runpc = "building"
    /\ caller = "nobody"
    /\ files = FALSE

\* One more record, of a person the week does not hold yet.
AddRecord ==
    /\ runpc = "building"
    /\ Len(Visits(assignment_dict)) < MaxRecords
    /\ \E w \in WeekIndices, person \in People,
          role \in {"leader", "shadow", "member"}, group \in {"setup", "cleanup"} :
          /\ ~InCurrentWeek(person, assignment_dict, w)
          /\ assignment_dict' =
                 IF group = "setup"
                 THEN AppendSetup(assignment_dict, w,
                          RecordOf(role, person, preference_dict[person]))
                 ELSE AppendCleanup(assignment_dict, w,
                          RecordOf(role, person, preference_dict[person]))
    /\ UNCHANGED <<constants, preference_dict, weeks, leader_last_week,
                   shadow_last_week, stack, result, validity, runpc, caller,
                   files>>

\* Line 92: is_valid_assignment(assignment_dict).
Validate ==
    /\ runpc = "building"
    /\ validity' = is_valid_assignment(assignment_dict, constants)
    /\ runpc' = "validated"
    /\ UNCHANGED <<constants, preference_dict, weeks, assignment_dict,
                   leader_last_week, shadow_last_week, stack, result, caller,
                   files>>

\* A second call that empties the schedule it was given.
RevalidateDraining ==
    /\ runpc = "validated"
    /\ assignment_dict' = EmptySchedule(weeks)
    /\ validity' = is_valid_assignment(assignment_dict', constants)
    /\ runpc' = "revalidated"
    /\ UNCHANGED <<constants, preference_dict, weeks, leader_last_week,
                   shadow_last_week, stack, result, caller, files>>

\* is_valid_assignment(assignment_dict) called a second time on the schedule
\* it has just judged: the function reads its argument and writes nothing.
Revalidate ==
    /\ runpc = "validated"
    /\ validity' = is_valid_assignment(assignment_dict, constants)
    /\ runpc' = "revalidated"
    /\ UNCHANGED <<constants, preference_dict, weeks, assignment_dict,
                   leader_last_week, shadow_last_week, stack, result, caller,
                   files>>

ValidatorNext ==
    \/ AddRecord
    \/ Validate
    \/ Revalidate

ValidatorSpec == ValidatorInit /\ [][ValidatorNext]_vars

\* ---------------------------------------------------- vocabulary of claims
\* The names of the records of one group, as a sequence.
GroupNames(group) == [k \in 1..Len(group) |-> group[k].name]

Distinct(s) == \A a, b \in 1..Len(s) : s[a] = s[b] => a = b

\* week indices in which name has a record satisfying Flag
WeeksOf(ad, name, Flag(_)) ==
    {w \in DOMAIN ad :
        \E k \in 1..Len(WeekRecords(ad, w)) :
            /\ WeekRecords(ad, w)[k].name = name
            /\ Flag(WeekRecords(ad, w)[k])}

AnyShift(rec) == TRUE

AsLeader(rec) == rec.leader_this_week

AsShadow(rec) == rec.shadow_this_week

\* the length of the longest interval of consecutive integers inside S
LongestRun(S) ==
    IF S = {} THEN 0
    ELSE CHOOSE k \in 1..Cardinality(S) :
             /\ \E a \in S : \A d \in 0..(k - 1) : a + d \in S
             /\ \A a \in S : \E d \in 0..k : a + d \notin S

\* the run of consecutive integers of S that ends at its largest element, in
\* ascending order
LastRun(S) ==
    IF S = {} THEN << >>
    ELSE LET last == CHOOSE m \in S : \A x \in S : x <= m
             first == CHOOSE a \in S :
                          /\ \A x \in a..last : x \in S
                          /\ a - 1 \notin S
         IN [k \in 1..(last - first + 1) |-> first + k - 1]

\* records bearing name in one week
ShiftsInWeek(ad, name, w) ==
    Cardinality({k \in 1..Len(WeekRecords(ad, w)) :
                    WeekRecords(ad, w)[k].name = name})

RECURSIVE ShiftsBefore(_, _, _)
ShiftsBefore(ad, name, n) ==
    IF n = 0 THEN 0
    ELSE ShiftsInWeek(ad, name, n - 1) + ShiftsBefore(ad, name, n - 1)

\* records bearing name, over all weeks and both groups
TotalShifts(ad, name) == ShiftsBefore(ad, name, Cardinality(DOMAIN ad))

Returned == result = "schedule"

\* The element the running call is looking at, when it is inside a loop.
InLoop ==
    /\ runpc = "searching"
    /\ stack # << >>
    /\ Top.pc \in {"leaders", "shadows", "participants"}
    /\ Top.i <= Len(Top.items)

Candidate == Top.items[Top.i]

\* A recursive call has returned False and its caller has not yet undone.
UndoPending ==
    /\ runpc = "searching"
    /\ Len(stack) > 1
    /\ Top.pc = "ret"
    /\ ~Top.retval

\* the schedule without the records that bear name in week index
WithoutName(ad, index, name) ==
    [ad EXCEPT
        ![index].setup = SelectSeq(@, LAMBDA rec : rec.name # name),
        ![index].cleanup = SelectSeq(@, LAMBDA rec : rec.name # name)]

\* week index and every later week hold no record
EmptyFrom(ad, index) ==
    \A w \in DOMAIN ad :
        w >= index => ad[w].setup = << >> /\ ad[w].cleanup = << >>

ShadowCount(group) ==
    Cardinality({k \in 1..Len(group) : group[k].shadow_this_week})

\* 0 for a leader record, 1 for a shadow record, 2 for an ordinary record
RoleRank(rec) ==
    IF rec.leader_this_week THEN 0 ELSE IF rec.shadow_this_week THEN 1 ELSE 2

\* leaders first, then shadows, then ordinary records
InRoleOrder(group) ==
    \A a, b \in 1..Len(group) :
        a < b => RoleRank(group[a]) <= RoleRank(group[b])

\* ------------------------------------------------------------------ claims
\* C1: in every state of the search and in every returned schedule, no
\* name occurs twice among the setup and cleanup records of one week.
C1_NoDoubleBooking ==
    \A w \in DOMAIN assignment_dict :
        Distinct(GroupNames(WeekRecords(assignment_dict, w)))

\* C1 witness: a candidate who already holds a record of the current week
\* and is eligible for its open group is under consideration.
C1_Witness ==
    /\ InLoop
    /\ Top.pc = "participants"
    /\ \E k \in 1..Len(assignment_dict[Top.index].cleanup) :
           assignment_dict[Top.index].cleanup[k].name = Candidate
    /\ WantsSetup(preference_dict[Candidate])
    /\ SetupOpen(assignment_dict, Top.index)

\* C2: a returned schedule has exactly MIN_SETUP setup records and exactly
\* MIN_CLEANUP cleanup records in every week.
C2_Coverage ==
    Returned =>
        /\ DOMAIN assignment_dict = WeekIndices
        /\ \A w \in WeekIndices :
               /\ Len(assignment_dict[w].setup) = MIN_SETUP
               /\ Len(assignment_dict[w].cleanup) = MIN_CLEANUP

\* C2 witness: a schedule with a setup and a cleanup crew is returned.
C2_Witness ==
    /\ Returned
    /\ weeks >= 1
    /\ MIN_CLEANUP >= 1

\* C3: a returned schedule has at least NUM_SETUP_LEADERS leader records in
\* every setup group and at least NUM_CLEANUP_LEADERS in every cleanup group.
C3_LeadershipQuota ==
    Returned =>
        \A w \in DOMAIN assignment_dict :
            /\ LeaderCount(assignment_dict[w].setup) >= NUM_SETUP_LEADERS
            /\ LeaderCount(assignment_dict[w].cleanup) >= NUM_CLEANUP_LEADERS

\* C4: in a returned schedule nobody has more than MAX_CONSECUTIVE_SHIFTS
\* consecutive weeks with a shift, nor as leader, nor as shadow.
C4_RunBounds ==
    Returned =>
        \A n \in Names :
            /\ LongestRun(WeeksOf(assignment_dict, n, AnyShift))
                   <= MAX_CONSECUTIVE_SHIFTS
            /\ LongestRun(WeeksOf(assignment_dict, n, AsLeader))
                   <= MAX_CONSECUTIVE_SHIFTS
            /\ LongestRun(WeeksOf(assignment_dict, n, AsShadow))
                   <= MAX_CONSECUTIVE_SHIFTS

\* C5: in a returned schedule everybody who appears has between MIN_SHIFTS
\* and MAX_SHIFTS records.
C5_ShiftBounds ==
    Returned =>
        \A n \in Names :
            TotalShifts(assignment_dict, n) > 0 =>
                /\ MIN_SHIFTS <= TotalShifts(assignment_dict, n)
                /\ TotalShifts(assignment_dict, n) <= MAX_SHIFTS

\* C6: in shadowing mode every group of every week of a returned schedule
\* holds a shadow record and a leader record.
C6_ShadowPresence ==
    (Returned /\ MODE = "shadowing") =>
        \A w \in DOMAIN assignment_dict :
            /\ AnyShadow(assignment_dict[w].setup)
            /\ AnyLeader(assignment_dict[w].setup)
            /\ AnyShadow(assignment_dict[w].cleanup)
            /\ AnyLeader(assignment_dict[w].cleanup)

\* C7: with no leader in the roster, a leader quota of at least one and at
\* least one week, the search never returns a schedule.
C7_NoLeadersInfeasible ==
    (/\ LeaderTotal(preference_dict) = 0
     /\ (NUM_SETUP_LEADERS >= 1 \/ NUM_CLEANUP_LEADERS >= 1)
     /\ weeks >= 1) => ~Returned

\* A roster too small to fill one week: no two records of a week may bear
\* the same name, so every search returns None.
Unfillable == weeks >= 1 /\ Cardinality(People) < MIN_SETUP + MIN_CLEANUP

\* C8: when every search returns None, run eventually stops and reports
\* "No valid assignment found.".
C8_ExhaustionReported ==
    (caller = "run" /\ Unfillable /\ result = "None")
        ~> (runpc = "No valid assignment found.")

\* C9: with fewer leaders than weeks run raises before the search is
\* called: no schedule is built, no call is on the stack, nothing is
\* returned and no report file is written.
C9_Precondition ==
    (caller = "run" /\ LeaderTotal(preference_dict) < weeks) =>
        /\ runpc = "ValueError"
        /\ assignment_dict = << >>
        /\ stack = << >>
        /\ result = "unset"
        /\ ~files

\* C9 witness: run has rejected a roster with a leader short of the weeks.
C9_Witness ==
    /\ caller = "run"
    /\ runpc = "ValueError"
    /\ LeaderTotal(preference_dict) = weeks - 1
    /\ LeaderTotal(preference_dict) >= 1

\* C10: whenever is_valid_assignment returns True, every week meets the
\* group-size and leader-count minimums, everybody who appears has between
\* MIN_SHIFTS and MAX_SHIFTS records, and nobody's longest run of
\* consecutive weeks (any shift, as leader, as shadow) anywhere in the
\* schedule exceeds MAX_CONSECUTIVE_SHIFTS.
C10_ValidatorSound ==
    (runpc = "validated" /\ validity = TRUE) =>
        /\ \A w \in DOMAIN assignment_dict :
               /\ Len(assignment_dict[w].setup) >= MIN_SETUP
               /\ Len(assignment_dict[w].cleanup) >= MIN_CLEANUP
               /\ LeaderCount(assignment_dict[w].setup) >= NUM_SETUP_LEADERS
               /\ LeaderCount(assignment_dict[w].cleanup) >= NUM_CLEANUP_LEADERS
        /\ \A n \in Names :
               /\ TotalShifts(assignment_dict, n) > 0 =>
                      /\ MIN_SHIFTS <= TotalShifts(assignment_dict, n)
                      /\ TotalShifts(assignment_dict, n) <= MAX_SHIFTS
               /\ LongestRun(WeeksOf(assignment_dict, n, AnyShift))
                      <= MAX_CONSECUTIVE_SHIFTS
               /\ LongestRun(WeeksOf(assignment_dict, n, AsLeader))
                      <= MAX_CONSECUTIVE_SHIFTS
               /\ LongestRun(WeeksOf(assignment_dict, n, AsShadow))
                      <= MAX_CONSECUTIVE_SHIFTS

\* C11: track_person_shifts gives each person a count equal to the number
\* of records bearing the name and a shift sequence equal to the run of
\* consecutive week indices that ends at the last week the person serves;
\* the leader and shadow sequences follow the same rule over the weeks
\* served as leader and as shadow.
C11_TrackerResult ==
    (runpc = "validated") =>
        LET t == track_person_shifts(assignment_dict)
        IN \A n \in People :
               /\ t.person_shift_count[n] = TotalShifts(assignment_dict, n)
               /\ t.person_shift_sequence[n] =
                      LastRun(WeeksOf(assignment_dict, n, AnyShift))
               /\ t.leader_shift_sequence[n] =
                      LastRun(WeeksOf(assignment_dict, n, AsLeader))
               /\ t.shadow_shift_sequence[n] =
                      LastRun(WeeksOf(assignment_dict, n, AsShadow))

\* C11 witness: the tracker has read a schedule in which somebody serves
\* weeks 0, 2 and 3, as leader in weeks 0 and 3: an older run is discarded
\* and the leader run differs from the shift run.
C11_Witness ==
    /\ runpc = "validated"
    /\ \E n \in Names :
           /\ WeeksOf(assignment_dict, n, AnyShift) = {0, 2, 3}
           /\ WeeksOf(assignment_dict, n, AsLeader) = {0, 3}

C13_NoHardFault == runpc \notin {"UnboundLocalError", "KeyError"}

\* C14: in every state of the search and in every returned schedule, the
\* setup groups hold only persons whose preference is "s" or "s/c" and the
\* cleanup groups only persons whose preference is "c" or "s/c".
C14_PreferenceRespected ==
    \A w \in DOMAIN assignment_dict :
        /\ \A k \in 1..Len(assignment_dict[w].setup) :
               preference_dict[assignment_dict[w].setup[k].name].preference
                   \in {"s", "s/c"}
        /\ \A k \in 1..Len(assignment_dict[w].cleanup) :
               preference_dict[assignment_dict[w].cleanup[k].name].preference
                   \in {"c", "s/c"}

\* C14 witness: a cleanup-only person was placed in the cleanup group of a
\* week whose setup group still had a place, next to a setup-only person.
C14_Witness ==
    \E w \in DOMAIN assignment_dict :
        /\ SetupOpen(assignment_dict, w)
        /\ \E k \in 1..Len(assignment_dict[w].cleanup) :
               preference_dict[assignment_dict[w].cleanup[k].name].preference
                   = "c"
        /\ \E k \in 1..Len(assignment_dict[w].setup) :
               preference_dict[assignment_dict[w].setup[k].name].preference
                   = "s"

\* C15: when backtracking_helper(index + 1) has returned False, the undo
\* removes from week index the record of the current candidate, added in
\* this iteration, and nothing else.  (The candidate passed the
\* double-assignment test, so a record of the week that bears the name was
\* added in this iteration.)
C15_UndoExact ==
    [][UndoPending =>
           assignment_dict' =
               WithoutName(assignment_dict, Caller.index,
                           Caller.items[Caller.i])]_vars

\* C16: when backtracking_helper(index) returns False, week index and every
\* later week are empty again, and every call backtracking_helper(index)
\* starts with week index and every later week empty.
C16_NoResidue ==
    (runpc = "searching" /\ stack # << >>) =>
        /\ (Top.pc = "ret" /\ ~Top.retval) =>
               EmptyFrom(assignment_dict, Top.index)
        /\ (Top.pc = "enter") => EmptyFrom(assignment_dict, Top.index)

\* C17: the calls on the stack are backtracking_helper(0), (1), (2), ... in
\* this order, none beyond len(weeks), and while backtracking_helper(index)
\* is executing every week before index holds exactly MIN_SETUP setup
\* records and exactly MIN_CLEANUP cleanup records; so index = len(weeks)
\* is reached only with every week filled.
C17_CursorMeaning ==
    (runpc = "searching" /\ stack # << >>) =>
        /\ \A k \in 1..Len(stack) : stack[k].index = k - 1
        /\ Top.index <= weeks
        /\ \A w \in 0..(Top.index - 1) :
               /\ Len(assignment_dict[w].setup) = MIN_SETUP
               /\ Len(assignment_dict[w].cleanup) = MIN_CLEANUP

\* C17 witness: the cursor has reached len(weeks) over the longest week
\* list.
C17_Witness ==
    /\ runpc = "searching"
    /\ stack # << >>
    /\ weeks = MaxWeeks
    /\ Top.index = weeks
    /\ Top.pc = "enter"

\* C18: in every state of the search, after backtracking too, and in every
\* returned schedule nobody has more than MAX_SHIFTS records.
C18_MaxShifts ==
    \A n \in Names : TotalShifts(assignment_dict, n) <= MAX_SHIFTS

\* C18 witness: the loop is looking at a candidate who holds MAX_SHIFTS
\* records already and none of them in the current week.
C18_Witness ==
    /\ InLoop
    /\ ~InCurrentWeek(Candidate, assignment_dict, Top.index)
    /\ TotalShifts(assignment_dict, Candidate) = MAX_SHIFTS

\* C19: in every state of the search and in every returned schedule, a
\* setup group holds at most NUM_SETUP_LEADERS leader records and at most
\* NUM_SETUP_SHADOWS shadow records, a cleanup group at most
\* NUM_CLEANUP_LEADERS leader records and NUM_CLEANUP_SHADOWS shadow records.
C19_QuotaUpperBound ==
    \A w \in DOMAIN assignment_dict :
        /\ LeaderCount(assignment_dict[w].setup) <= NUM_SETUP_LEADERS
        /\ LeaderCount(assignment_dict[w].cleanup) <= NUM_CLEANUP_LEADERS
        /\ ShadowCount(assignment_dict[w].setup) <= NUM_SETUP_SHADOWS
        /\ ShadowCount(assignment_dict[w].cleanup) <= NUM_CLEANUP_SHADOWS

\* C20: in every state of the search, in the setup and in the cleanup
\* sequence of every week no leader record stands after a shadow record or
\* an ordinary record, and no shadow record after an ordinary record.
C20_RoleOrder ==
    \A w \in DOMAIN assignment_dict :
        /\ InRoleOrder(assignment_dict[w].setup)
        /\ InRoleOrder(assignment_dict[w].cleanup)

\* C21: whenever a loop looks at a candidate, nobody who comes later in the
\* same loop has strictly fewer records in the schedule as it is then.
C21_FewestFirst ==
    InLoop =>
        \A j \in (Top.i + 1)..Len(Top.items) :
            TotalShifts(assignment_dict, Top.items[j])
                >= TotalShifts(assignment_dict, Candidate)

\* C22: a call of assign_shifts_backtracker eventually returns, a schedule
\* or None, whatever the shuffles, and its recursion is never deeper than
\* len(weeks) + 1.
C22_Terminates ==
    /\ [](Len(stack) <= weeks + 1)
    /\ (runpc = "searching") ~> (runpc = "returned")

\* the index of the deepest call that is still running: the last frame, or
\* its caller once the last frame has returned
RunningIndex ==
    IF Len(stack) > 1 /\ Top.pc = "ret" THEN Caller.index ELSE Top.index

\* C23: no step of the search changes a week before the week of the call
\* that takes it; every call on the stack has an index at most that one, so
\* the weeks before a call's index stay as they were from its start to its
\* return, whatever it returns.
C23_EarlierWeeksFrozen ==
    [][(runpc = "searching" /\ stack # << >>) =>
          \A w \in 0..(RunningIndex - 1) :
              assignment_dict'[w] = assignment_dict[w]]_vars

\* A call of index 1 or more is about to undo in a week that holds records,
\* while the weeks before it hold records too.
C23_Witness ==
    /\ UndoPending
    /\ Caller.index >= 1
    /\ WeekRecords(assignment_dict, Caller.index) # << >>
    /\ \A w \in 0..(Caller.index - 1) :
           WeekRecords(assignment_dict, w) # << >>

\* the records of the schedule, of every week and both groups
AllRecords ==
    UNION {{WeekRecords(assignment_dict, w)[k] :
               k \in 1..Len(WeekRecords(assignment_dict, w))} :
           w \in DOMAIN assignment_dict}

\* C24: a record marked leader_this_week bears the name of a leader, a record
\* marked shadow_this_week the name of a shadow who is not a leader, and no
\* record is marked both.
C24_RoleFlags ==
    \A rec \in AllRecords :
        LET person == preference_dict[rec.name]
        IN /\ rec.leader_this_week => person.is_leader
           /\ rec.shadow_this_week =>
                  person.is_shadow /\ ~person.is_leader
           /\ ~(rec.leader_this_week /\ rec.shadow_this_week)

\* The schedule holds a record marked leader_this_week of somebody who is
\* leader and shadow at once, and a record marked shadow_this_week.
C24_Witness ==
    /\ \E rec \in AllRecords :
           rec.leader_this_week /\ preference_dict[rec.name].is_shadow
    /\ \E rec \in AllRecords : rec.shadow_this_week

====
